---- MODULE Spec2Model ----
(***************************************************************************)
(* Model of generate_tests.py: the test-file generator of the repository.  *)
(*                                                                         *)
(* Text is modelled character by character (a string is a sequence of      *)
(* one-character strings), so that str.replace, startswith, endswith,      *)
(* os.path.dirname / basename / join and relpath act as they do in Python. *)
(* A file system is a function from full path to file body.  A run of      *)
(* main() is single-threaded and runs to completion, so it is one action;  *)
(* the order of its steps is recorded in the variable trace.               *)
(***************************************************************************)
EXTENDS Integers, Sequences, FiniteSets, TLC

VARIABLES
    srcFS,      \* files under src/: full path -> what loading the module does
    testsFS,    \* files under tests/: full path -> text (sequence of lines)
    specs,      \* test_specifications: identifier -> specification
    status,     \* "init" before any run, then how the last run ended
    force,      \* args.force of the last run
    verbose,    \* args.verbose of the last run
    src_files,  \* the list get_src_files() returned in the last run
    trace,      \* what the last run did, in order (calls, writes, prints)
    runs,       \* number of runs so far
    dirty,      \* the solutions root was changed since the last run ended
    preTests,   \* testsFS as it was when the last run started
    succ,       \* the last run came right after a run without --force that
                \* ended normally, with no change to any file in between
    orphans     \* identifiers that had their generated test file when the run
                \* before the last ended and that the last run no longer found
                \* in src/

vars == <<srcFS, testsFS, specs, status, force, verbose, src_files, trace,
          runs, dirty, preTests, succ, orphans>>

----------------------------------------------------------------------------
(* Bounds of the model *)

MaxSrc == 2
MaxTests == 2
MaxCases == 2
MaxRuns == 2

----------------------------------------------------------------------------
(* Text *)

PY == <<".", "p", "y">>
TEST_ == <<"t", "e", "s", "t", "_">>
SEP == <<"/">>
DOT == <<".">>
SRC == <<"s", "r", "c">>
TESTS == <<"t", "e", "s", "t", "s">>
INIT_PY == <<"_", "_", "i", "n", "i", "t", "_", "_">> \o PY

StartsWith(s, p) == Len(s) >= Len(p) /\ SubSeq(s, 1, Len(p)) = p

EndsWith(s, p) == Len(s) >= Len(p) /\ SubSeq(s, Len(s) - Len(p) + 1, Len(s)) = p

\* str.replace(old, new): every non-overlapping occurrence, left to right.
RECURSIVE Replace(_, _, _)
Replace(s, old, new) ==
    IF Len(s) = 0 THEN <<>>
    ELSE IF StartsWith(s, old)
         THEN new \o Replace(SubSeq(s, Len(old) + 1, Len(s)), old, new)
         ELSE <<Head(s)>> \o Replace(Tail(s), old, new)

\* Index of the last "/" of s, 0 when there is none.
LastSep(s) ==
    LET at == {k \in 1..Len(s) : s[k] = "/"}
    IN  IF at = {} THEN 0 ELSE CHOOSE k \in at : \A j \in at : j <= k

\* os.path.dirname and os.path.basename (posix).
Dirname(s) == IF LastSep(s) <= 1 THEN SubSeq(s, 1, LastSep(s))
              ELSE SubSeq(s, 1, LastSep(s) - 1)

Basename(s) == SubSeq(s, LastSep(s) + 1, Len(s))

\* os.path.join(a, b) (posix).
Join(a, b) ==
    IF StartsWith(b, SEP) THEN b
    ELSE IF Len(a) = 0 \/ EndsWith(a, SEP) THEN a \o b
    ELSE a \o SEP \o b

\* os.path.relpath(p, root) for a file p below root.
Relpath(p, root) == SubSeq(p, Len(root) + 2, Len(p))

\* The files os.walk(root) visits.
Walk(fs, root) == {p \in DOMAIN fs : StartsWith(p, root \o SEP)}

\* str(n) for a natural number.
Digit(d) == CASE d = 0 -> "0" [] d = 1 -> "1" [] d = 2 -> "2" [] d = 3 -> "3"
              [] d = 4 -> "4" [] d = 5 -> "5" [] d = 6 -> "6" [] d = 7 -> "7"
              [] d = 8 -> "8" [] d = 9 -> "9"

RECURSIVE IntStr(_)
IntStr(n) == IF n < 10 THEN <<Digit(n)>> ELSE IntStr(n \div 10) \o <<Digit(n % 10)>>

\* sep.join(parts)
RECURSIVE JoinSeq(_, _)
JoinSeq(parts, sep) ==
    IF Len(parts) = 0 THEN <<>>
    ELSE IF Len(parts) = 1 THEN parts[1]
    ELSE parts[1] \o sep \o JoinSeq(Tail(parts), sep)

Range(f) == {f[x] : x \in DOMAIN f}


\* One entry of trace: a call, a file operation or a printed line.
Ev(op, arg, ret, name) == [op |-> op, arg |-> arg, ret |-> ret, name |-> name]

\* A line written to standard output: its kind, the path it names, the
\* function name it names ("" when it names none).
Line(kind, path, name) == Ev("print", path, kind, name)

----------------------------------------------------------------------------
(* get_src_files and get_test_files *)

\* The filter of get_src_files and the identifier it computes.
IsSrcFile(p) == EndsWith(Basename(p), PY) /\ Basename(p) # INIT_PY

SrcId(p) == Replace(Replace(Relpath(p, SRC), PY, <<>>), SEP, SEP)

\* The filter of get_test_files and the identifier it computes.
IsTestFile(p) == StartsWith(Basename(p), TEST_) /\ EndsWith(Basename(p), PY)

TestId(p) == Replace(Replace(Replace(Relpath(p, TESTS), PY, <<>>), TEST_, <<>>), SEP, SEP)

\* The orders in which os.walk can yield the files S: top-down, the files of
\* one directory together; the order inside a directory is the listing's.
WalkOrders(S) ==
    {o \in [1..Cardinality(S) -> S] :
        /\ \A i, j \in DOMAIN o : i # j => o[i] # o[j]
        /\ \A i, j \in DOMAIN o : i < j =>
              ~StartsWith(Dirname(o[i]), Dirname(o[j]) \o SEP)
        /\ \A i, j, k \in DOMAIN o : (i < k /\ k < j /\ Dirname(o[i]) = Dirname(o[j]))
              => Dirname(o[k]) = Dirname(o[i])}

\* The lists get_src_files() can return for the solutions root fs.
get_src_files(fs) ==
    {[k \in DOMAIN o |-> SrcId(o[k])] :
        o \in WalkOrders({p \in Walk(fs, SRC) : IsSrcFile(p)})}

\* The lists get_test_files() can return for the tests root fs.
get_test_files(fs) ==
    {[k \in DOMAIN o |-> TestId(o[k])] :
        o \in WalkOrders({p \in Walk(fs, TESTS) : IsTestFile(p)})}

----------------------------------------------------------------------------
(* validate_function *)

\* full_src_path
FullSrcPath(src_path) == Join(SRC, src_path \o PY)

\* What validate_function does: ret is "True" or "False" when it returns,
\* "raise" when an exception leaves it; log holds the lines it prints.
\* Loading a module either succeeds (names: its attributes), raises an
\* Exception, or raises a BaseException that is no Exception (SystemExit
\* from sys.exit(), KeyboardInterrupt), which `except Exception` lets pass.
validate_function(fs, src_path, function_name, v) ==
    LET full == FullSrcPath(src_path)
    IN  IF full \notin DOMAIN fs THEN [ret |-> "False", log |-> <<>>]
        ELSE IF fs[full].load = "ok"
             THEN LET exists == function_name \in fs[full].names
                  IN  [ret |-> IF exists THEN "True" ELSE "False",
                       log |-> IF v /\ ~exists
                               THEN <<Line("Warning", full, function_name)>>
                               ELSE <<>>]
        ELSE IF fs[full].load = "exception"
             THEN [ret |-> "False",
                   log |-> IF v THEN <<Line("Error loading", full, "")>> ELSE <<>>]
        ELSE [ret |-> "raise", log |-> <<>>]

----------------------------------------------------------------------------
(* generate_test_file *)

\* repr() of a value of the spec table.
Repr(val) ==
    IF val.tag = "bool" THEN <<IF val.b THEN "True" ELSE "False">>
    ELSE <<"[">> \o JoinSeq([k \in DOMAIN val.items |-> IntStr(val.items[k])], <<", ">>)
               \o <<"]">>

\* ", ".join(f"{k}={repr(v)}" for k, v in case['input'].items())
InputArgs(case) ==
    JoinSeq([k \in DOMAIN case.input |->
                <<case.input[k].key, "=">> \o Repr(case.input[k].value)], <<", ">>)

\* enumerate(test_cases, 1): the numbering starts at one.
CaseIndexFromOne(k) == k

\* The index enumerate() gives the k-th case (k counted from 1).
CaseIndex(k) == k - 1

\* The lines one case adds to content.
RenderCase(function_name, i, case) ==
    << <<"def test_case_">> \o IntStr(i) \o <<"():">>,
       <<"    assert ", function_name, "(">> \o InputArgs(case) \o <<") == ">>
            \o Repr(case.output),
       <<>> >>

\* The loop over enumerate(test_cases), from the k-th case on.
RECURSIVE RenderCases(_, _, _)
RenderCases(function_name, test_cases, k) ==
    IF k > Len(test_cases) THEN <<>>
    ELSE RenderCase(function_name, CaseIndex(k), test_cases[k])
            \o RenderCases(function_name, test_cases, k + 1)

\* import_path
ImportPath(src_path) == SRC \o DOT \o Replace(src_path, SEP, DOT)

\* content, as the sequence of its lines.
Content(src_path, spec) ==
    << <<"from ">> \o ImportPath(src_path) \o <<" import ", spec.function_name>>,
       <<>> >>
    \o RenderCases(spec.function_name, spec.test_cases, 1)

TestDir(src_path) == Join(TESTS, Dirname(src_path))

TestFilename(src_path) == TEST_ \o Basename(src_path) \o PY

TestFilepath(src_path) == Join(TestDir(src_path), TestFilename(src_path))

\* generate_test_file without its early return.
SkipNever(tests, path, f) == FALSE

\* The early return of generate_test_file.
SkipExisting(tests, path, f) == path \in DOMAIN tests /\ ~f

\* The word of the last print of generate_test_file; tests is the tests
\* root at that point, after the write.
Outcome(tests, path, f) ==
    IF f /\ path \in DOMAIN tests THEN "Regenerated" ELSE "Generated"

\* The file system fs with the file path holding body.
WriteFile(fs, path, body) ==
    [p \in DOMAIN fs \cup {path} |-> IF p = path THEN body ELSE fs[p]]

\* The file system fs without the file path.
RemoveFile(fs, path) == [p \in DOMAIN fs \ {path} |-> fs[p]]

\* One call: the tests root it leaves, what it did, and whether an
\* exception left it.
generate_test_file(fs, tests, src_path, spec, f, v) ==
    LET path == TestFilepath(src_path)
        call == Ev("generate_test_file", src_path,
                   IF path \in DOMAIN tests THEN "exists" ELSE "absent", "")
    IN  IF SkipExisting(tests, path, f)
        THEN [tests |-> tests, raised |-> FALSE,
              log |-> <<call>> \o (IF v THEN <<Line("Skipping", path, "")>> ELSE <<>>)]
        ELSE
        LET function_name == spec.function_name
            val == validate_function(fs, src_path, function_name, v)
            vcall == Ev("validate_function", src_path, val.ret, function_name)
        IN  IF val.ret = "raise"
            THEN [tests |-> tests, raised |-> TRUE,
                  log |-> <<call, vcall>> \o val.log]
            ELSE IF val.ret = "False"
            THEN [tests |-> tests, raised |-> FALSE,
                  log |-> <<call, vcall>> \o val.log
                          \o <<Line("Error", SRC \o SEP \o src_path \o PY, function_name)>>]
            ELSE
            LET written == WriteFile(tests, path, Content(src_path, spec))
            IN  [tests |-> written, raised |-> FALSE,
                 log |-> <<call, vcall>> \o val.log
                         \o <<Ev("write", path,
                                 IF path \in DOMAIN tests THEN "over" ELSE "new", ""),
                              Line(Outcome(written, path, f), path, "")>>]

----------------------------------------------------------------------------
(* clean_orphaned_tests *)

\* test_filepath of clean_orphaned_tests.
OrphanPath(test_path) == Join(TESTS, test_path \o PY)

\* The loop over test_files, from its first entry on.
RECURSIVE clean_orphaned_tests(_, _, _, _)
clean_orphaned_tests(tests, files, test_files, v) ==
    IF Len(test_files) = 0 THEN [tests |-> tests, log |-> <<>>]
    ELSE
    LET test_path == Head(test_files)
        path == OrphanPath(test_path)
        step == IF test_path \in Range(files) THEN [tests |-> tests, log |-> <<>>]
                ELSE IF path \in DOMAIN tests
                THEN [tests |-> RemoveFile(tests, path),
                      log |-> <<Ev("remove", path, "", ""),
                                Line("Removed orphaned test file", path, "")>>]
                ELSE [tests |-> tests,
                      log |-> IF v THEN <<Line("already removed", path, "")>> ELSE <<>>]
        rest == clean_orphaned_tests(step.tests, files, Tail(test_files), v)
    IN  [tests |-> rest.tests, log |-> step.log \o rest.log]

----------------------------------------------------------------------------
(* main *)

\* The loop of main over src_files, from the k-th entry on.  An exception
\* that leaves generate_test_file leaves main: the process ends there.
RECURSIVE GenerateLoop(_, _, _, _, _, _, _)
GenerateLoop(fs, table, tests, files, k, f, v) ==
    IF k > Len(files) THEN [tests |-> tests, log |-> <<>>, status |-> "done"]
    ELSE IF files[k] \in DOMAIN table
    THEN LET g == generate_test_file(fs, tests, files[k], table[files[k]], f, v)
         IN  IF g.raised THEN [tests |-> g.tests, log |-> g.log, status |-> "aborted"]
             ELSE LET rest == GenerateLoop(fs, table, g.tests, files, k + 1, f, v)
                  IN  [tests |-> rest.tests, log |-> g.log \o rest.log,
                       status |-> rest.status]
    ELSE LET rest == GenerateLoop(fs, table, tests, files, k + 1, f, v)
             note == IF v THEN <<Line("No test specs", SRC \o SEP \o files[k] \o PY, "")>>
                     ELSE <<>>
         IN  [tests |-> rest.tests, log |-> note \o rest.log, status |-> rest.status]

\* f"{src_files}"
ListRepr(files) ==
    <<"[">> \o JoinSeq([k \in DOMAIN files |-> <<"'">> \o files[k] \o <<"'">>], <<", ">>)
          \o <<"]">>

\* One run of main() with --force = f and --verbose = v.
Main(f, v) ==
    /\ runs < MaxRuns
    /\ \E files \in get_src_files(srcFS), test_files \in get_test_files(testsFS) :
         LET found == IF v THEN <<Line("Found source files", ListRepr(files), "")>>
                      ELSE <<>>
             swept == clean_orphaned_tests(testsFS, files, test_files, v)
             gen == GenerateLoop(srcFS, specs, swept.tests, files, 1, f, v)
         IN  /\ testsFS' = gen.tests
             /\ trace' = found \o swept.log \o gen.log
             /\ status' = gen.status
             /\ src_files' = files
             /\ orphans' = {s \in Range(src_files) \cap DOMAIN specs :
                              /\ TestFilepath(s) \in DOMAIN testsFS
                              /\ testsFS[TestFilepath(s)] = Content(s, specs[s])}
                              \ Range(files)
    /\ force' = f
    /\ verbose' = v
    /\ runs' = runs + 1
    /\ preTests' = testsFS
    /\ succ' = (runs >= 1 /\ ~dirty /\ ~force /\ status = "done")
    /\ dirty' = FALSE
    /\ UNCHANGED <<srcFS, specs>>

\* Between two runs somebody deletes the source file p.
RemoveSource(p) ==
    /\ runs >= 1
    /\ runs < MaxRuns
    /\ p \in DOMAIN srcFS
    /\ srcFS' = RemoveFile(srcFS, p)
    /\ dirty' = TRUE
    /\ UNCHANGED <<testsFS, specs, status, force, verbose, src_files, trace, runs,
                   preTests, succ, orphans>>

----------------------------------------------------------------------------
(* The inputs *)

A == <<"a">>
DB == <<"d", "/", "b">>

\* Source files the solutions root may hold.
SrcUniverse ==
    { SRC \o SEP \o A \o PY,              \* src/a.py
      SRC \o SEP \o TEST_ \o A \o PY,     \* src/test_a.py
      SRC \o SEP \o DB \o PY,             \* src/d/b.py
      SRC \o SEP \o A \o PY \o PY,        \* src/a.py.py
      SRC \o SEP \o INIT_PY }             \* src/__init__.py

\* Files the tests root may hold before the first run.
TestUniverse ==
    { TESTS \o SEP \o TEST_ \o A \o PY,                         \* tests/test_a.py
      TESTS \o SEP \o A \o PY,                                  \* tests/a.py
      TESTS \o SEP \o TEST_ \o <<"t">> \o TEST_ \o <<"e", "s", "t", "_">> \o A \o PY,
                                                                \* tests/test_ttest_est_a.py
      TESTS \o SEP \o <<"d", "/">> \o TEST_ \o <<"b">> \o PY }  \* tests/d/test_b.py

\* Keys the spec table may hold.
IdUniverse == {A, TEST_ \o A, DB}

\* What loading a source file can do.
Modules ==
    { [load |-> "ok", names |-> {"has_duplicate"}],
      [load |-> "ok", names |-> {}],
      [load |-> "exception", names |-> {}],
      [load |-> "exit", names |-> {}] }

Bool(b) == [tag |-> "bool", b |-> b, items |-> <<>>]
List(items) == [tag |-> "list", b |-> FALSE, items |-> items]

\* The k-th test case of a spec entry.
CaseAt(k) ==
    IF k = 1 THEN [input |-> <<[key |-> "nums", value |-> List(<<1, 2, 3, 1>>)]>>,
                   output |-> Bool(TRUE)]
    ELSE IF k = 2 THEN [input |-> <<[key |-> "nums", value |-> List(<<1, 2, 3>>)]>>,
                        output |-> Bool(FALSE)]
    ELSE [input |-> <<[key |-> "nums", value |-> List(<<k, 10 + k>>)]>>,
          output |-> Bool(FALSE)]

SpecOf(n) == [function_name |-> "has_duplicate", test_cases |-> [k \in 1..n |-> CaseAt(k)]]

\* The entries the spec table may hold: MaxCases cases, one case, no case.
FullTable ==
    [s \in IdUniverse |-> IF s = A THEN SpecOf(MaxCases)
                          ELSE IF s = DB THEN SpecOf(0) ELSE SpecOf(1)]

\* A module whose loading nothing depends on.
Plain == [load |-> "ok", names |-> {"has_duplicate"}]

\* The run loads the file p: it is a solution with a spec entry, and the path
\* validate_function builds from its identifier is p.
Loaded(p, table) ==
    IsSrcFile(p) /\ SrcId(p) \in DOMAIN table /\ FullSrcPath(SrcId(p)) = p

\* Text a test file holds that no run wrote.
Old == << <<"# old">> >>

UpTo(U, n) == {D \in SUBSET U : Cardinality(D) <= n}

Init ==
    /\ srcFS \in UNION {[D -> Modules] : D \in UpTo(SrcUniverse, MaxSrc)}
    /\ testsFS \in UNION {[D -> {Old}] : D \in UpTo(TestUniverse, MaxTests)}
    /\ specs \in {[s \in D |-> FullTable[s]] : D \in SUBSET IdUniverse}
    \* Entries for solutions that are not there and the bodies of files that
    \* are never loaded change nothing: one representative of each.
    /\ DOMAIN specs \subseteq {SrcId(p) : p \in {q \in DOMAIN srcFS : IsSrcFile(q)}}
    /\ \A p \in DOMAIN srcFS : Loaded(p, specs) \/ srcFS[p] = Plain
    /\ status = "init"
    /\ force = FALSE
    /\ verbose = FALSE
    /\ src_files = <<>>
    /\ trace = <<>>
    /\ runs = 0
    /\ dirty = FALSE
    /\ preTests = testsFS
    /\ succ = FALSE
    /\ orphans = {}

Next ==
    \/ \E f \in BOOLEAN, v \in BOOLEAN : Main(f, v)
    \/ \E p \in SrcUniverse : RemoveSource(p)

Spec == Init /\ [][Next]_vars


\* A single run from the initial state: the specification of the claims
\* that speak of one run.
Once == runs = 0 /\ \E f \in BOOLEAN, v \in BOOLEAN : Main(f, v)

SpecOnce == Init /\ [][Once]_vars

----------------------------------------------------------------------------
(* The claims *)

\* The solutions the last run found that have a spec entry.
Specified == {s \in Range(src_files) : s \in DOMAIN specs}

\* Loading the source file of s succeeds and defines the entry point.
Defines(s) ==
    /\ FullSrcPath(s) \in DOMAIN srcFS
    /\ srcFS[FullSrcPath(s)].load = "ok"
    /\ specs[s].function_name \in srcFS[FullSrcPath(s)].names

\* The last run has just ended: nothing was changed since.
JustRan == runs >= 1 /\ ~dirty

\* C1: a solution that had a test file when a run ended and whose source is
\* gone at the next run has no test file any more after that next run.
C1_OrphanRemoved ==
    \A s \in orphans : TestFilepath(s) \notin DOMAIN testsFS

\* C2: a run without --force that follows, with nothing in between, a run
\* without --force (both ending normally) creates, overwrites and deletes no
\* file: the tests root is as it was.
C2_Idempotent ==
    (succ /\ ~force /\ status = "done" /\ ~dirty) =>
        /\ testsFS = preTests
        /\ \A k \in DOMAIN trace : trace[k].op \notin {"write", "remove"}

\* C3: a run leaves the test file of a solution without spec entry as it
\* was: not created, not overwritten, not deleted.
C3_NoSpecUntouched ==
    JustRan =>
        \A s \in Range(src_files) \ DOMAIN specs :
            LET path == TestFilepath(s)
            IN  /\ (path \in DOMAIN testsFS) = (path \in DOMAIN preTests)
                /\ path \in DOMAIN testsFS => testsFS[path] = preTests[path]

\* C4: for a solution with a spec entry whose source does not define the
\* entry point (or is missing, or fails to load), every call of
\* validate_function returns False and generate_test_file writes nothing.
C4_ValidationCorrect ==
    JustRan =>
        \A s \in Specified : ~Defines(s) =>
            \A k \in DOMAIN trace :
                /\ (trace[k].op = "validate_function" /\ trace[k].arg = s)
                      => trace[k].ret = "False"
                /\ ~(trace[k].op = "write" /\ trace[k].arg = TestFilepath(s))

\* C5: after a run with --force every solution that is in the solutions
\* root, has a spec entry and defines its entry point has a test file, which
\* the run wrote and which holds the text rendered from the spec entry.
C5_ForceRewrites ==
    (JustRan /\ force) =>
        \A s \in Specified : Defines(s) =>
            /\ TestFilepath(s) \in DOMAIN testsFS
            /\ testsFS[TestFilepath(s)] = Content(s, specs[s])
            /\ \E k \in DOMAIN trace :
                  trace[k].op = "write" /\ trace[k].arg = TestFilepath(s)

\* C6: no failure while loading a solution leaves validate_function: it
\* returns, and the run goes on to its normal end.
C6_NeverPropagates ==
    /\ \A k \in DOMAIN trace :
          trace[k].op = "validate_function" => trace[k].ret \in {"True", "False"}
    /\ status # "aborted"

\* C7: for every identifier s the solutions enumeration returned, the tests
\* enumeration maps the test file path of s back to s, and the path the
\* orphan sweeper builds from s is that test file path.
C7_IdentifierStable ==
    \A s \in Range(src_files) :
        /\ IsTestFile(TestFilepath(s))
        /\ TestId(TestFilepath(s)) = s
        /\ OrphanPath(s) = TestFilepath(s)

IsValidateLine(e) == e.op = "print" /\ e.ret \in {"Warning", "Error loading"}

C9_OutcomeDistinguishes ==
    \A k \in DOMAIN trace :
        trace[k].op = "write" =>
            /\ k < Len(trace)
            /\ trace[k + 1] = Line(IF trace[k].ret = "new" THEN "Generated"
                                   ELSE "Regenerated", trace[k].arg, "")

\* The lines of text that open a test function.
DefLines(text) ==
    {i \in DOMAIN text : Len(text[i]) > 0 /\ text[i][1] = "def test_case_"}

\* C10: a file written for a spec entry of n cases holds one import line, a
\* blank line and then exactly n test functions; the i-th is named by i - 1
\* and asserts the i-th case's inputs against the i-th case's output.  The
\* first case of the table is has_duplicate(nums=[1, 2, 3, 1]) == True.
C10_RenderedInOrder ==
    \A k \in DOMAIN trace :
        trace[k].op = "write" =>
            LET s == trace[k - 1].arg
                text == testsFS[trace[k].arg]
                fn == specs[s].function_name
                cases == specs[s].test_cases
                n == Len(cases)
            IN  /\ Len(text) = 2 + 3 * n
                /\ text[1] = <<"from ", "s", "r", "c", ".">> \o Replace(s, SEP, DOT)
                                 \o <<" import ", fn>>
                /\ text[2] = <<>>
                /\ Cardinality(DefLines(text)) = n
                /\ \A i \in 1..n :
                      /\ text[3 * i] = <<"def test_case_">> \o IntStr(i - 1) \o <<"():">>
                      /\ text[3 * i + 1] =
                            <<"    assert ", fn, "(">> \o InputArgs(cases[i])
                                \o <<") == ">> \o Repr(cases[i].output)
                      /\ text[3 * i + 2] = <<>>
                /\ (n >= 1 /\ cases[1] = CaseAt(1)) =>
                      text[4] = <<"    assert ", "has_duplicate", "(", "nums", "=",
                                  "[", "1", ", ", "2", ", ", "3", ", ", "1", "]",
                                  ") == ", "True">>

\* A run wrote a test file of at least two cases.
C10_Witness ==
    \E k \in DOMAIN trace :
        /\ trace[k].op = "write"
        /\ Len(specs[trace[k - 1].arg].test_cases) >= 2

====
